---- MODULE Spec2Model ----
(***************************************************************************)
(* Model of pred_spot_intensity/train_pytorch_models.py:                   *)
(*   train_pytorch_model_on_intensities  (top-level orchestrator)          *)
(*   train_torch_model_cross_val_loop    (cross-validation driver)         *)
(*   features_selection_torch_model      (feature-attribution driver)      *)
(*   train_torch_model                   (single-model trainer)            *)
(*                                                                         *)
(* Tables are modelled by their keys and cells.  A wide matrix (the result *)
(* of DataFrame.pivot) is a record [index, columns, data]; data is a       *)
(* function on the cells that hold a value, so a NaN cell is a cell that   *)
(* is not in DOMAIN data.  Learned weights are not modelled: a prediction  *)
(* is the symbolic value "output of the model of fold f on row i of X".    *)
(* The minimum sample counts of the external libraries (10 clusters for    *)
(* KMeans, 100 background rows for the explainer) are not scaled into the  *)
(* model; the row counts here are small.                                   *)
(***************************************************************************)
EXTENDS Integers, Sequences, FiniteSets, TLC

\* ------------------------------------------------------------------ bounds
MaxFolds == 2      \* largest num_cross_val_folds tried
MaxRows  == 5      \* largest number of rows given to the driver alone
MaxBatch == 2      \* largest batch_size given to the driver alone
MaxShap  == 1      \* largest mean absolute attribution value

\* ------------------------------------------------------- program constants
OrchestratorBatchSize == 8

\* ---------------------------------------------------------------- universe
ValidTasks == {"ranking", "detection", "regression"}
TaskNames  == ValidTasks \cup {"classification"}

\* (molecule, adduct) pairs that may occur in the observation table, in the
\* lexicographic order in which pivot sorts its row index
EntityOrder == << <<"m1", "a1">>, <<"m1", "a2">>, <<"m2", "a1">> >>
MoleculeOrder == << <<"m1">>, <<"m2">> >>
\* (matrix, polarity) pairs, in pivot's column order
ColumnOrder == << <<"DAN", "neg">>, <<"DHB", "pos">> >>

\* columns of features_df and of adducts_one_hot (= adducts_columns)
FeatureCols == << "f1" >>
AdductCols  == << "a1", "a2" >>

SeqToSet(s) == {s[i] : i \in 1..Len(s)}

\* position of x in the sequence s (x occurs in s)
IndexOf(s, x) == CHOOSE i \in 1..Len(s) : s[i] = x

\* the elements of the ordered universe `order` that belong to S, in order
RECURSIVE SortedKeys(_, _)
SortedKeys(order, S) ==
    IF order = <<>> THEN <<>>
    ELSE IF Head(order) \in S
         THEN <<Head(order)>> \o SortedKeys(Tail(order), S)
         ELSE SortedKeys(Tail(order), S)

\* norm_intensity of an observation: a positive measurement, distinct per cell
IntensityOf(e, c) == 2 * IndexOf(EntityOrder, e) + IndexOf(ColumnOrder, c)

\* one row of intensities_df
ObservationRow(e, c, det) ==
    [name_short |-> e[1], adduct |-> e[2], matrix |-> c[1], polarity |-> c[2],
     norm_intensity |-> IntensityOf(e, c), detected |-> det]

\* an observation table: each (entity, column) cell is absent, observed and
\* not detected, or observed and detected
CellStates == {"absent", "not_detected", "detected"}

TableOf(ents, st) ==
    {ObservationRow(p[1], p[2], st[p] = "detected") :
        p \in {q \in ents \X SeqToSet(ColumnOrder) : st[q] # "absent"}}

ObservationTables(ents) ==
    {TableOf(ents, st) : st \in [ents \X SeqToSet(ColumnOrder) -> CellStates]}

VARIABLES
    intensities_df, task_name, do_feature_selection, use_adduct_features,
    num_cross_val_folds, checkpoint_path,                       \* arguments
    pc, error, calls,                                           \* control
    Y, Y_detected, Y_is_na, X, ignore_mask,                     \* orchestrator
    nrows, batch_size, test_folds, fold, all_results,           \* cv driver
    reshaped_out, df_feat_importance                            \* results

vars == <<intensities_df, task_name, do_feature_selection, use_adduct_features,
          num_cross_val_folds, checkpoint_path, pc, error, calls,
          Y, Y_detected, Y_is_na, X, ignore_mask,
          nrows, batch_size, test_folds, fold, all_results,
          reshaped_out, df_feat_importance>>

argVars == <<intensities_df, task_name, do_feature_selection,
             use_adduct_features, num_cross_val_folds, checkpoint_path>>
cvVars == <<nrows, batch_size, test_folds, fold, all_results>>
outVars == <<reshaped_out, df_feat_importance>>

\* ------------------------------------------------------------ wide matrices
EmptyMatrix == [index |-> <<>>, columns |-> <<>>, data |-> <<>>]
NoMask == [isNone |-> TRUE, data |-> <<>>]
NoError == [kind |-> "", where |-> ""]

Cells(M) == SeqToSet(M.index) \X SeqToSet(M.columns)

\* index_cols = ['name_short', 'adduct'] if use_adduct_features else ['name_short']
IndexKey(r, ua) == IF ua THEN <<r.name_short, r.adduct>> ELSE <<r.name_short>>
ColKey(r) == <<r.matrix, r.polarity>>
IndexUniverse(ua) == IF ua THEN EntityOrder ELSE MoleculeOrder

\* DataFrame.pivot raises ValueError when two rows share (index, columns)
PivotDuplicates(df, ua) ==
    \E r1, r2 \in df : /\ r1 # r2
                       /\ IndexKey(r1, ua) = IndexKey(r2, ua)
                       /\ ColKey(r1) = ColKey(r2)

\* DataFrame.pivot(index=index_cols, columns=["matrix","polarity"], values=field)
Pivot(df, ua, field) ==
    LET keys == {IndexKey(r, ua) : r \in df}
        cols == {ColKey(r) : r \in df}
        held == {<<IndexKey(r, ua), ColKey(r)>> : r \in df}
        rowAt(p) == CHOOSE r \in df : IndexKey(r, ua) = p[1] /\ ColKey(r) = p[2]
    IN [index   |-> SortedKeys(IndexUniverse(ua), keys),
        columns |-> SortedKeys(ColumnOrder, cols),
        data    |-> [p \in held |-> rowAt(p)[field]]]

\* Y_detected.isna()
IsNa(M) == [index |-> M.index, columns |-> M.columns,
            data |-> [p \in Cells(M) |-> p \notin DOMAIN M.data]]

\* M[mask] = v   (boolean-matrix assignment)
AssignWhere(M, mask, v) ==
    LET hit == {p \in Cells(M) : mask[p]}
    IN [index |-> M.index, columns |-> M.columns,
        data |-> [p \in (DOMAIN M.data) \cup hit |->
                     IF p \in hit THEN v ELSE M.data[p]]]

\* Y_detected.sum(axis=1) > 0
DetectedIonMask(Yd) ==
    [e \in SeqToSet(Yd.index) |->
        \E c \in SeqToSet(Yd.columns) : Yd.data[<<e, c>>] = TRUE]

\* M[row_mask]   (boolean row selection)
SelectRows(M, rowMask) ==
    LET kept == {e \in SeqToSet(M.index) : rowMask[e]}
    IN [index |-> SortedKeys(M.index, kept), columns |-> M.columns,
        data |-> [p \in {q \in DOMAIN M.data : q[1] \in kept} |-> M.data[p]]]

\* Y_detected == False, as a mask over the cells
IsFalse(Yd) == [p \in Cells(Yd) |-> Yd.data[p] = FALSE]

\* mutant: the never-detected rows are dropped whatever the task
DropsNeverDetected_AnyTask(task) == TRUE

\* rows dropped for task "ranking" only (lines 244-248)
DropsNeverDetected(task) == task = "ranking"


\* mutant: the sentinel is written at every not-detected cell
SentinelMask_NotDetected(Yd, na) == IsFalse(Yd)

\* the cells overwritten with the sentinel -1 for task "ranking" (line 278)
SentinelMask(Yd, na) == na.data

\* ignore_mask per task (lines 275-284); None for "ranking"
IgnoreMaskFor(task, Yd, na) ==
    IF task = "detection" THEN [isNone |-> FALSE, data |-> na.data]
    ELSE IF task = "regression"
         THEN [isNone |-> FALSE, data |-> [p \in Cells(Yd) |-> ~Yd.data[p]]]
         ELSE NoMask

\* target matrix per task (lines 276-284)
TargetFor(task, Yz, Yd, na) ==
    IF task = "ranking" THEN AssignWhere(Yz, SentinelMask(Yd, na), -1)
    ELSE IF task = "detection" THEN Yd
    ELSE Yz

\* mutant: the chain has no final else branch
OrchestratorAccepts_NoCheck(task) == TRUE

\* the if/elif chain of lines 276-286 ends in `raise ValueError`
OrchestratorAccepts(task) == task \in {"ranking", "detection", "regression"}

\* the if/elif chain of lines 95-103 ends in `raise ValueError(task_name)`
CrossValAccepts(task) == task \in {"ranking", "detection"}

\* the if/elif chain of lines 162-174 ends in `raise ValueError(task_name)`
FeatureSelectionAccepts(task) == task \in {"ranking", "detection", "regression"}

\* columns of X: features_df columns, then (joined) the adduct one-hot columns
XColumns(ua) == IF ua THEN FeatureCols \o AdductCols ELSE FeatureCols

\* row of X for the entity e: each value is named by its source column and
\* the key it was looked up with (molecule for features, adduct for one-hot)
XRow(e, ua) ==
    [j \in 1..Len(XColumns(ua)) |->
        <<XColumns(ua)[j], IF j <= Len(FeatureCols) THEN e[1] ELSE e[2]>>]

BuildX(index, ua) == [i \in 1..Len(index) |-> XRow(index[i], ua)]

\* feat_names of lines 341-343
FeatNames(ua) == IF ua THEN AdductCols \o FeatureCols ELSE FeatureCols

Fail(kind, where) ==
    /\ pc' = "failed"
    /\ error' = [kind |-> kind, where |-> where]

\* ------------------------------------------------------------ orchestrator
\* lines 235-251: pivot, missingness, never-detected rows, zeroing
ReshapeToTrainingFormat ==
    /\ pc = "start"
    /\ IF PivotDuplicates(intensities_df, use_adduct_features)
       THEN /\ Fail("ValueError", "pivot")
            /\ UNCHANGED <<Y, Y_detected, Y_is_na>>
       ELSE LET Y0   == Pivot(intensities_df, use_adduct_features, "norm_intensity")
                Yd0  == Pivot(intensities_df, use_adduct_features, "detected")
                na0  == IsNa(Yd0)
                Yd1  == AssignWhere(Yd0, na0.data, FALSE)
                mask == DetectedIonMask(Yd1)
                drop == DropsNeverDetected(task_name)
                Y1   == IF drop THEN SelectRows(Y0, mask) ELSE Y0
                Yd2  == IF drop THEN SelectRows(Yd1, mask) ELSE Yd1
                na2  == IF drop THEN SelectRows(na0, mask) ELSE na0
            IN /\ Y' = AssignWhere(Y1, IsFalse(Yd2), 0)
               /\ Y_detected' = Yd2
               /\ Y_is_na' = na2
               /\ pc' = "features"
               /\ UNCHANGED error
    /\ UNCHANGED <<argVars, calls, X, ignore_mask, cvVars, outVars>>

\* lines 254-267: feature matrix and KMeans stratification labels
\* (KMeans.fit raises ValueError on an array without rows)
BuildFeatures ==
    /\ pc = "features"
    /\ IF Len(Y.index) = 0
       THEN /\ Fail("ValueError", "KMeans")
            /\ UNCHANGED X
       ELSE /\ X' = BuildX(Y.index, use_adduct_features)
            /\ pc' = "targets"
            /\ UNCHANGED error
    /\ UNCHANGED <<argVars, calls, Y, Y_detected, Y_is_na, ignore_mask,
                   cvVars, outVars>>

\* lines 275-286: task-specific target and ignore mask
SelectTargets ==
    /\ pc = "targets"
    /\ IF OrchestratorAccepts(task_name)
       THEN /\ Y' = TargetFor(task_name, Y, Y_detected, Y_is_na)
            /\ ignore_mask' = IgnoreMaskFor(task_name, Y_detected, Y_is_na)
            /\ pc' = "dispatch"
            /\ UNCHANGED error
       ELSE /\ Fail("ValueError", "orchestrator")
            /\ UNCHANGED <<Y, ignore_mask>>
    /\ UNCHANGED <<argVars, calls, Y_detected, Y_is_na, X, cvVars, outVars>>

\* lines 291-302 / 327-338: call one of the two drivers
Dispatch ==
    /\ pc = "dispatch"
    /\ IF ~do_feature_selection
       THEN /\ pc' = "cv_entry"
            /\ nrows' = Len(X)
            /\ batch_size' = OrchestratorBatchSize
       ELSE /\ pc' = "fs_entry"
            /\ UNCHANGED <<nrows, batch_size>>
    /\ UNCHANGED <<argVars, error, calls, Y, Y_detected, Y_is_na, X,
                   ignore_mask, test_folds, fold, all_results, outVars>>


\* ------------------------------------------------- cross-validation driver
\* sequences that enumerate the finite set S without repetition
Perms(S) ==
    {s \in [1..Cardinality(S) -> S] : \A i, j \in 1..Cardinality(S) :
                                         i # j => s[i] # s[j]}

\* DataLoader(batch_size=bs, drop_last=dropLast) over the sampled order s
RECURSIVE Batches(_, _, _)
Batches(s, bs, dropLast) ==
    IF Len(s) = 0 THEN <<>>
    ELSE IF Len(s) < bs
         THEN (IF dropLast THEN <<>> ELSE <<s>>)
         ELSE <<SubSeq(s, 1, bs)>> \o Batches(SubSeq(s, bs + 1, Len(s)), bs, dropLast)

\* mutant: the test loader drops a trailing incomplete batch, like the train loader
TestDropLast_LikeTrain == TRUE

\* drop_last of the test loader (lines 121-122: not given, DataLoader default)
TestDropLast == FALSE

\* trainer.predict on one batch of the test dataset: the model's outputs for
\* the rows of the batch and the row indices the dataset hands back
Predict(f, batch) ==
    << [t \in 1..Len(batch) |-> [fold |-> f, row |-> batch[t]]], batch >>

\* np.concatenate([tensor[k].numpy() for tensor in prediction])
RECURSIVE Concatenate(_, _)
Concatenate(prediction, k) ==
    IF prediction = <<>> THEN <<>>
    ELSE Head(prediction)[k] \o Concatenate(Tail(prediction), k)

\* lc_results = DataFrame(pred_array, index=pred_indices); lc_results["fold"] = fold
LcResults(pred_array, pred_indices, f) ==
    [t \in 1..Len(pred_array) |->
        [index |-> pred_indices[t], pred |-> pred_array[t], fold |-> f]]

\* all_results = pd.concat([all_results, lc_results])
ConcatResults(all, lc) == all \o lc

\* fold assignments StratifiedKFold can produce: every row is held out in
\* exactly one of the k folds and no fold is empty
FoldAssignments(n, k) ==
    {tf \in [0..(n - 1) -> 0..(k - 1)] :
        \A f \in 0..(k - 1) : \E i \in 0..(n - 1) : tf[i] = f}

\* lines 90-103: dataset wrappers and task configuration
CVEntry ==
    /\ pc = "cv_entry"
    /\ calls' = calls \cup {"train_torch_model_cross_val_loop"}
    /\ IF CrossValAccepts(task_name)
       THEN /\ pc' = "cv_split"
            /\ UNCHANGED error
       ELSE Fail("ValueError", "cross_val")
    /\ all_results' = <<>>
    /\ UNCHANGED <<argVars, Y, Y_detected, Y_is_na, X, ignore_mask,
                   nrows, batch_size, test_folds, fold, outVars>>

\* lines 106-109: the stratified split (it raises ValueError when there are
\* more folds than rows)
CVSplit ==
    /\ pc = "cv_split"
    /\ IF num_cross_val_folds > nrows
       THEN /\ Fail("ValueError", "StratifiedKFold")
            /\ UNCHANGED <<test_folds, fold>>
       ELSE /\ \E tf \in FoldAssignments(nrows, num_cross_val_folds) :
                   test_folds' = tf
            /\ fold' = 0
            /\ pc' = "cv_loop"
            /\ UNCHANGED error
    /\ UNCHANGED <<argVars, calls, Y, Y_detected, Y_is_na, X, ignore_mask,
                   nrows, batch_size, all_results, outVars>>

\* lines 112-137: one fold: loaders, fresh model, fit, predict, accumulate;
\* the test loader draws the held-out rows in a random order
CVFold ==
    /\ pc = "cv_loop"
    /\ fold < num_cross_val_folds
    /\ LET test_index == {i \in 0..(nrows - 1) : test_folds[i] = fold}
       IN \E order \in Perms(test_index) :
            LET prediction ==
                    LET bt == Batches(order, batch_size, TestDropLast)
                    IN [b \in 1..Len(bt) |-> Predict(fold, bt[b])]
                pred_array   == Concatenate(prediction, 1)
                pred_indices == Concatenate(prediction, 2)
            IN IF prediction = <<>>
               THEN /\ Fail("ValueError", "np.concatenate")
                    /\ UNCHANGED <<all_results, fold>>
               ELSE /\ all_results' = ConcatResults(all_results,
                                        LcResults(pred_array, pred_indices, fold))
                    /\ fold' = fold + 1
                    /\ UNCHANGED <<pc, error>>
    /\ calls' = calls \cup {"SimpleTwoLayersNN", "train_torch_model"}
    /\ UNCHANGED <<argVars, Y, Y_detected, Y_is_na, X, ignore_mask,
                   nrows, batch_size, test_folds, outVars>>

\* line 139: return all_results
CVReturn ==
    /\ pc = "cv_loop"
    /\ fold = num_cross_val_folds
    /\ pc' = "cv_returned"
    /\ UNCHANGED <<argVars, error, calls, Y, Y_detected, Y_is_na, X,
                   ignore_mask, cvVars, outVars>>


\* --------------------------------------------- reshaping the cv results
\* insert the row r into the sequence s sorted by ascending index
RECURSIVE InsertByIndex(_, _)
InsertByIndex(s, r) ==
    IF s = <<>> THEN <<r>>
    ELSE IF r.index < Head(s).index
         THEN <<r>> \o s
         ELSE <<Head(s)>> \o InsertByIndex(Tail(s), r)

\* out.sort_index()
RECURSIVE SortIndex(_)
SortIndex(s) ==
    IF s = <<>> THEN <<>>
    ELSE InsertByIndex(SortIndex(SubSeq(s, 1, Len(s) - 1)), s[Len(s)])

\* concatenation of the sequences f(1), ..., f(n)
RECURSIVE FlatMap(_, _)
FlatMap(f, n) == IF n = 0 THEN <<>> ELSE FlatMap(f, n - 1) \o f[n]

\* the cells of row e of M that stack keeps: a NaN cell gives no row
StackRow(M, e) ==
    LET cols == SortedKeys(M.columns,
                    {c \in SeqToSet(M.columns) : <<e, c>> \in DOMAIN M.data})
    IN [j \in 1..Len(cols) |->
            [key |-> e \o cols[j], value |-> M.data[<<e, cols[j]>>]]]

\* M.stack(all column levels): long form, one row per (index key, column key)
Stack(M) ==
    FlatMap([i \in 1..Len(M.index) |-> StackRow(M, M.index[i])], Len(M.index))

\* mutant: the join matches on the first index level only
JoinInner_OnFirstLevel(left, right) ==
    FlatMap([i \in 1..Len(left) |->
                LET m == SelectSeq(right, LAMBDA r : r.key[1] = left[i].key[1])
                IN [t \in 1..Len(m) |->
                       [key |-> left[i].key, observed_value |-> left[i].value,
                        prediction |-> m[t].value]]],
            Len(left))

\* left.join(right, how="inner") on the long-form key
JoinInner(left, right) ==
    FlatMap([i \in 1..Len(left) |->
                LET m == SelectSeq(right, LAMBDA r : r.key = left[i].key)
                IN [t \in 1..Len(m) |->
                       [key |-> left[i].key, observed_value |-> left[i].value,
                        prediction |-> m[t].value]]],
            Len(left))

\* the key the fold is looked up with: levels 0 and 1 of the long-form index
FoldLookupKey(key) == <<key[1], key[2]>>

\* the constant tag of line 322
ModelType == "NN"

\* training_results of line 309: the sorted cv rows re-keyed, by position,
\* with the row index of Y
ReKey(sorted, index) ==
    [i \in 1..Len(sorted) |->
        [key |-> index[i], pred |-> sorted[i].pred, fold |-> sorted[i].fold]]

\* the prediction frame of lines 312-313: the predictions of training_results
\* under Y's row index and Y's columns
PredictionFrame(training_results, M) ==
    [index |-> M.index, columns |-> M.columns,
     data |-> [p \in Cells(M) |->
        [fold |-> training_results[IndexOf(M.index, p[1])].pred.fold,
         row  |-> training_results[IndexOf(M.index, p[1])].pred.row,
         col  |-> IndexOf(M.columns, p[2])]]]

\* training_results.loc[keys, "fold"] for one key (the key is in the index)
FoldAt(training_results, k) ==
    training_results[CHOOSE i \in 1..Len(training_results) :
                        training_results[i].key = k].fold

\* lines 306-325: long-form results table
ReshapeResults ==
    /\ pc = "cv_returned"
    /\ \E sorted \in {SortIndex(all_results)} :
         IF Len(sorted) # Len(Y.index)
         THEN /\ Fail("ValueError", "reshape")
              /\ UNCHANGED reshaped_out
         ELSE
           \E training_results \in {ReKey(sorted, Y.index)} :
           \E joined \in {JoinInner(Stack(Y),
                            Stack(PredictionFrame(training_results, Y)))} :
              IF \E t \in 1..Len(joined) :
                     FoldLookupKey(joined[t].key) \notin SeqToSet(Y.index)
              THEN /\ Fail("KeyError", "fold lookup")
                   /\ UNCHANGED reshaped_out
              ELSE /\ reshaped_out' =
                        [t \in 1..Len(joined) |->
                           [key |-> joined[t].key,
                            observed_value |-> joined[t].observed_value,
                            prediction |-> joined[t].prediction,
                            fold |-> FoldAt(training_results,
                                            FoldLookupKey(joined[t].key)),
                            model_type |-> ModelType]]
                   /\ pc' = "returned"
                   /\ UNCHANGED error
    /\ UNCHANGED <<argVars, calls, Y, Y_detected, Y_is_na, X, ignore_mask,
                   cvVars, df_feat_importance>>

\* ------------------------------------------------ feature-attribution driver
\* lines 157-174: dataset wrappers and task configuration
FSEntry ==
    /\ pc = "fs_entry"
    /\ calls' = calls \cup {"features_selection_torch_model"}
    /\ IF FeatureSelectionAccepts(task_name)
       THEN /\ pc' = "fs_train"
            /\ UNCHANGED error
       ELSE Fail("ValueError", "feature_selection")
    /\ UNCHANGED <<argVars, Y, Y_detected, Y_is_na, X, ignore_mask,
                   cvVars, outVars>>

\* lines 176-203: train a model on all rows, or load it from the checkpoint;
\* line 199 calls ignore_mask.flatten(), which fails on None
FSTrain ==
    /\ pc = "fs_train"
    /\ IF checkpoint_path = "None"
       THEN /\ calls' = calls \cup {"SimpleTwoLayersNN", "train_torch_model"}
            /\ IF ignore_mask.isNone
               THEN Fail("AttributeError", "feature_selection")
               ELSE /\ pc' = "fs_explain"
                    /\ UNCHANGED error
       ELSE /\ calls' = calls \cup {"SimpleTwoLayersNN.load_from_checkpoint"}
            /\ pc' = "fs_explain"
            /\ UNCHANGED error
    /\ UNCHANGED <<argVars, Y, Y_detected, Y_is_na, X, ignore_mask,
                   cvVars, outVars>>

\* lines 206-214: attribution values of every row of X
FSExplain ==
    /\ pc = "fs_explain"
    /\ calls' = calls \cup {"shap.DeepExplainer"}
    /\ pc' = "fs_returned"
    /\ UNCHANGED <<argVars, error, Y, Y_detected, Y_is_na, X, ignore_mask,
                   cvVars, outVars>>

\* ------------------------------------------------- feature-importance table
\* mutant: ascending order (sort_values' default)
SortsBefore_Ascending(a, b) == ~a.nan /\ (b.nan \/ a.mean_abs_shap < b.mean_abs_shap)

\* a sorts before b under sort_values(ascending=False): NaN goes last
SortsBefore(a, b) == ~a.nan /\ (b.nan \/ a.mean_abs_shap > b.mean_abs_shap)

RECURSIVE InsertByShap(_, _)
InsertByShap(s, r) ==
    IF s = <<>> THEN <<r>>
    ELSE IF SortsBefore(r, Head(s))
         THEN <<r>> \o s
         ELSE <<Head(s)>> \o InsertByShap(Tail(s), r)

\* df.sort_values("mean_abs_shap", ascending=False)
RECURSIVE SortValues(_)
SortValues(s) ==
    IF s = <<>> THEN <<>>
    ELSE InsertByShap(SortValues(SubSeq(s, 1, Len(s) - 1)), s[Len(s)])

\* loc_df of lines 353-359 for output dimension i: shap[<<i, j>>] is the mean
\* of |shap_values[i][rows kept, j]|; no row kept gives NaN.  xcol records
\* the column of X the averaged values belong to.
LocDf(i, shap, feat_names, ua) ==
    LET c == Y.columns[i]
        allIgnored == \A e \in SeqToSet(Y.index) : ignore_mask.data[<<e, c>>]
    IN [j \in 1..Len(feat_names) |->
          [mean_abs_shap |-> IF allIgnored THEN 0 ELSE shap[<<i, j>>],
           nan |-> allIgnored,
           matrix |-> c[1], polarity |-> c[2],
           feature_name |-> feat_names[j],
           xcol |-> XColumns(ua)[j]]]

\* lines 341-362; line 346 calls ignore_mask.astype, which fails on None
FeatureImportance ==
    /\ pc = "fs_returned"
    /\ IF ignore_mask.isNone
       THEN /\ Fail("AttributeError", "orchestrator")
            /\ UNCHANGED df_feat_importance
       ELSE LET feat_names == FeatNames(use_adduct_features)
                D == Len(Y.columns)
            IN \E shap \in [(1..D) \X (1..Len(feat_names)) -> 0..MaxShap] :
                 /\ df_feat_importance' =
                       SortValues(FlatMap(
                          [i \in 1..D |->
                              LocDf(i, shap, feat_names, use_adduct_features)], D))
                 /\ pc' = "returned"
                 /\ UNCHANGED error
    /\ UNCHANGED <<argVars, calls, Y, Y_detected, Y_is_na, X, ignore_mask,
                   cvVars, reshaped_out>>

\* --------------------------------------------------------- specifications
InitState ==
    /\ error = NoError
    /\ calls = {}
    /\ Y = EmptyMatrix /\ Y_detected = EmptyMatrix /\ Y_is_na = EmptyMatrix
    /\ X = <<>>
    /\ ignore_mask = NoMask
    /\ test_folds = <<>> /\ fold = 0
    /\ all_results = <<>>
    /\ reshaped_out = <<>>
    /\ df_feat_importance = <<>>

\* calls of the orchestrator with do_feature_selection = False (the default)
Init ==
    /\ intensities_df \in ObservationTables(SeqToSet(EntityOrder))
    /\ task_name \in TaskNames
    /\ do_feature_selection = FALSE
    /\ use_adduct_features \in BOOLEAN
    /\ num_cross_val_folds \in 2..MaxFolds
    /\ checkpoint_path = "None"
    /\ pc = "start"
    /\ nrows = 0 /\ batch_size = 0
    /\ InitState

Next ==
    \/ ReshapeToTrainingFormat
    \/ BuildFeatures
    \/ SelectTargets
    \/ Dispatch
    \/ CVEntry
    \/ CVSplit
    \/ CVFold
    \/ CVReturn
    \/ ReshapeResults

Spec == Init /\ [][Next]_vars

\* calls of the orchestrator with do_feature_selection = True
FSEntities == { <<"m1", "a2">>, <<"m2", "a1">> }

InitFS ==
    /\ intensities_df \in ObservationTables(FSEntities)
    /\ task_name \in TaskNames
    /\ do_feature_selection = TRUE
    /\ use_adduct_features \in BOOLEAN
    /\ num_cross_val_folds = 2
    /\ checkpoint_path \in {"None", "model.ckpt"}
    /\ pc = "start"
    /\ nrows = 0 /\ batch_size = 0
    /\ InitState

NextFS ==
    \/ ReshapeToTrainingFormat
    \/ BuildFeatures
    \/ SelectTargets
    \/ Dispatch
    \/ FSEntry
    \/ FSTrain
    \/ FSExplain
    \/ FeatureImportance

SpecFS == InitFS /\ [][NextFS]_vars

\* calls of the cross-validation driver alone, on n rows
InitCV ==
    /\ intensities_df = {}
    /\ task_name \in TaskNames
    /\ do_feature_selection = FALSE
    /\ use_adduct_features = TRUE
    /\ num_cross_val_folds \in 2..MaxFolds
    /\ checkpoint_path = "None"
    /\ pc = "cv_entry"
    /\ nrows \in 1..MaxRows
    /\ batch_size \in 1..MaxBatch
    /\ InitState

NextCV ==
    \/ CVEntry
    \/ CVSplit
    \/ CVFold
    \/ CVReturn

SpecCV == InitCV /\ [][NextCV]_vars


\* calls of the orchestrator with either value of do_feature_selection
InitAll == Init \/ InitFS

NextAll == Next \/ NextFS

SpecAll == InitAll /\ [][NextAll]_vars

\* ------------------------------------------------------------------ claims
\* what the observation table says about a cell, by the row-grouping key
KeysObserved == {IndexKey(r, use_adduct_features) : r \in intensities_df}
ColumnsObserved == {ColKey(r) : r \in intensities_df}
Observed(e, c) ==
    \E r \in intensities_df : IndexKey(r, use_adduct_features) = e /\ ColKey(r) = c
DetectedAt(e, c) ==
    \E r \in intensities_df :
        IndexKey(r, use_adduct_features) = e /\ ColKey(r) = c /\ r.detected
EverDetected(e) == \E c \in ColumnsObserved : DetectedAt(e, c)

\* the target and the mask have been computed and are (being) handed to a driver
Handed ==
    \/ pc = "dispatch"
    \/ "train_torch_model_cross_val_loop" \in calls
    \/ "features_selection_torch_model" \in calls

\* the input is well formed: one observation per cell of the pivot, every
\* entity detected somewhere, and at least as many entities as folds
WellFormedInput ==
    /\ ~PivotDuplicates(intensities_df, use_adduct_features)
    /\ \A e \in KeysObserved : EverDetected(e)
    /\ Cardinality(KeysObserved) >= num_cross_val_folds

ModelCode == {"train_torch_model_cross_val_loop", "features_selection_torch_model",
              "train_torch_model", "SimpleTwoLayersNN",
              "SimpleTwoLayersNN.load_from_checkpoint", "shap.DeepExplainer"}

\* C1 (as stated): for every valid task name and either value of the
\* feature-selection flag, a call on well-formed input does not fail and
\* returns a non-empty table.
C1_AllValidTasksReturn ==
    (task_name \in ValidTasks /\ WellFormedInput) =>
        /\ pc # "failed"
        /\ (pc = "returned" =>
               Len(reshaped_out) + Len(df_feat_importance) > 0)

\* C2: for a task name outside {"ranking", "detection", "regression"} the
\* orchestrator never returns a table, a run that has stopped has failed with
\* ValueError, and no driver, trainer or model constructor was invoked.
C2_InvalidTaskFailsBeforeModelCode ==
    task_name \notin ValidTasks =>
        /\ pc # "returned"
        /\ calls \cap ModelCode = {}
        /\ (pc = "failed" => error.kind = "ValueError")
        /\ (~ENABLED NextAll => pc = "failed")

C2_Witness ==
    /\ task_name \notin ValidTasks
    /\ pc = "failed"
    /\ error = [kind |-> "ValueError", where |-> "orchestrator"]
    /\ Len(Y.index) > 0

\* C3: the table the cross-validation driver returns holds every row index
\* 0..n-1 exactly once, tagged with the fold in which that row was held out.
C3_FoldsPartitionIndex ==
    pc = "cv_returned" =>
        /\ Len(all_results) = nrows
        /\ \A i \in 0..(nrows - 1) :
              /\ Cardinality({t \in 1..Len(all_results) :
                                 all_results[t].index = i}) = 1
              /\ \A t \in 1..Len(all_results) :
                    all_results[t].index = i =>
                        all_results[t].fold = test_folds[i]

C3_Witness ==
    /\ pc = "cv_returned"
    /\ nrows = MaxRows
    /\ \E f \in 0..(num_cross_val_folds - 1) :
          Cardinality({i \in 0..(nrows - 1) : test_folds[i] = f}) > batch_size
    /\ \E t \in 1..(Len(all_results) - 1) :
          all_results[t].index > all_results[t + 1].index

C5_RankingTargetNeverZero ==
    (task_name = "ranking" /\ Handed) =>
        \A p \in Cells(Y) : Y.data[p] # 0

\* C6: for task "detection" no entity row is dropped, the ignore mask is
\* true exactly at the cells without an observation, and the target is true
\* exactly at the cells observed and marked detected.
C6_DetectionMaskIsMissingness ==
    (task_name = "detection" /\ Handed) =>
        /\ SeqToSet(Y.index) = KeysObserved
        /\ SeqToSet(Y.columns) = ColumnsObserved
        /\ ~ignore_mask.isNone
        /\ DOMAIN ignore_mask.data = Cells(Y)
        /\ DOMAIN Y.data = Cells(Y)
        /\ \A p \in Cells(Y) :
              /\ ignore_mask.data[p] <=> ~Observed(p[1], p[2])
              /\ Y.data[p] <=> DetectedAt(p[1], p[2])

C6_Witness ==
    /\ task_name = "detection" /\ Handed
    /\ \E e \in SeqToSet(Y.index) : ~EverDetected(e)
    /\ \E p \in Cells(Y) : ignore_mask.data[p]
    /\ \E p \in Cells(Y) : Y.data[p]

\* the entities that survive preprocessing for the task
Surviving ==
    {e \in KeysObserved : task_name = "ranking" => EverDetected(e)}

\* C7: the long-form table returned on the cross-validation path has one row
\* per (surviving entity, matrix, polarity), each triple exactly once, and
\* model_type "NN" on every row.
C7_LongFormOneRowPerTriple ==
    pc = "returned" =>
        /\ Len(reshaped_out) =
              Cardinality(Surviving) * Cardinality(ColumnsObserved)
        /\ \A e \in Surviving : \A c \in ColumnsObserved :
              Cardinality({t \in 1..Len(reshaped_out) :
                              reshaped_out[t].key = e \o c}) = 1
        /\ \A t \in 1..Len(reshaped_out) : reshaped_out[t].model_type = "NN"

C7_Witness ==
    /\ pc = "returned"
    /\ task_name = "detection"
    /\ Cardinality(Surviving) = 3
    /\ Len(reshaped_out) = 6

\* C8: the feature-importance table has one row per (matrix, polarity) pair
\* and feature name, every name exactly once per pair, in non-increasing
\* order of mean_abs_shap (rows whose mean is NaN come last).
C8_ImportanceTableSorted ==
    (pc = "returned" /\ do_feature_selection) =>
        LET F == Len(FeatureCols) +
                 (IF use_adduct_features THEN Len(AdductCols) ELSE 0)
            names == SeqToSet(FeatureCols) \cup
                     (IF use_adduct_features THEN SeqToSet(AdductCols) ELSE {})
            df == df_feat_importance
        IN /\ Len(df) = Cardinality(ColumnsObserved) * F
           /\ \A c \in ColumnsObserved : \A f \in names :
                 Cardinality({t \in 1..Len(df) :
                    /\ df[t].matrix = c[1] /\ df[t].polarity = c[2]
                    /\ df[t].feature_name = f}) = 1
           /\ \A t \in 1..(Len(df) - 1) :
                 /\ df[t].nan => df[t + 1].nan
                 /\ (~df[t].nan /\ ~df[t + 1].nan) =>
                        df[t].mean_abs_shap >= df[t + 1].mean_abs_shap

C8_Witness ==
    /\ pc = "returned" /\ do_feature_selection
    /\ use_adduct_features
    /\ Cardinality(ColumnsObserved) = 2
    /\ Len(df_feat_importance) = 6
    /\ ~df_feat_importance[6].nan
    /\ df_feat_importance[1].mean_abs_shap > df_feat_importance[6].mean_abs_shap
    /\ df_feat_importance[1].matrix # df_feat_importance[2].matrix

\* C9 (as stated): for both settings of use_adduct_features the fold look-up
\* succeeds, and every row of the long-form table carries the prediction made
\* for its entity's own row of X at its (matrix, polarity) column and the fold
\* in which that entity was held out.
C9_RowsCarryOwnPredictionAndFold ==
    /\ (pc = "failed" => error.where # "fold lookup")
    /\ pc = "returned" =>
          \A t \in 1..Len(reshaped_out) :
             LET r == reshaped_out[t]
                 e == SubSeq(r.key, 1, Len(r.key) - 2)
                 c == SubSeq(r.key, Len(r.key) - 1, Len(r.key))
                 i == IndexOf(Y.index, e) - 1
             IN /\ r.prediction.row = i
                /\ r.prediction.col = IndexOf(Y.columns, c)
                /\ r.prediction.fold = test_folds[i]
                /\ r.fold = test_folds[i]

\* C10 (as stated): with adduct features, the feature name on each row of the
\* feature-importance table names the column of X whose attribution values
\* were averaged for that row.
C10_FeatureNameIsAveragedColumn ==
    (pc = "returned" /\ do_feature_selection /\ use_adduct_features) =>
        \A t \in 1..Len(df_feat_importance) :
            df_feat_importance[t].feature_name = df_feat_importance[t].xcol

====
